---- MODULE Spec2Model ----
(***************************************************************************)
(* Inventory Management & Billing System (src/main.py).                    *)
(*                                                                         *)
(* The persisted state is the product file (data/products.csv), the sales  *)
(* ledger (data/sales.csv) and the bill files (bills/<bill_id>.txt/.csv).  *)
(* The in-memory state is the cart of the current order session.           *)
(*                                                                         *)
(* Numbers: a price held in memory is a float; it is modelled as an        *)
(* integer number of mills (1/1000 of the currency unit).  A price or an   *)
(* amount written to a file is formatted with two decimals ("{:.2f}"); it  *)
(* is modelled as an integer number of cents.  Raw console input is a      *)
(* string; int() and float() are modelled by parse tables over the inputs. *)
(*                                                                         *)
(* The product file is shared persisted state: product-management          *)
(* operations may act on it between the cart operations of an order        *)
(* session (every cart operation re-reads the file).                       *)
(*                                                                         *)
(* An uncaught I/O error ends the process: the cart is lost, the files     *)
(* stay as they are, and the program can be started again on the same      *)
(* files.  The error explored is open() failing on a file a checkout       *)
(* writes; in product management the same error changes no file.           *)
(*                                                                         *)
(* The operations are explored under four specifications, which differ in  *)
(* what the operator types and in the bounds: Spec (every operation, one   *)
(* product, two checkouts), SpecStock (every operation, two products, one  *)
(* checkout), SpecCart (products and cart, names and prices vary) and      *)
(* SpecIds (products only).                                                *)
(***************************************************************************)
EXTENDS Integers, Sequences

\* ------------------------------------------------------------------ bounds
MaxLineQty == 2     \* add_item is not called once a cart line would exceed this
MaxId == 1          \* Spec: add_product is not called once the next id exceeds this
MaxClock == 3       \* Spec: the wall clock is read up to this half second
MaxIdStock == 2     \* SpecStock: the same bounds, two products and one checkout
MaxClockStock == 2
MaxIdCart == 2      \* SpecCart
MaxIdIds == 3       \* SpecIds

\* str.strip() on what is typed in
strip(s) ==
    CASE s = " ink " -> "ink"
      [] s = "  " -> ""
      [] s = " Y" -> "Y"
      [] OTHER -> s

\* str.lower() on what is typed in
lower(s) == IF s = "Y" THEN "y" ELSE s

\* int(text): [ok |-> FALSE] stands for ValueError
int_of(s) ==
    CASE s = "-1" -> [ok |-> TRUE, val |-> -1]
      [] s = "0" -> [ok |-> TRUE, val |-> 0]
      [] s = "1" -> [ok |-> TRUE, val |-> 1]
      [] s = "2" -> [ok |-> TRUE, val |-> 2]
      [] s = "3" -> [ok |-> TRUE, val |-> 3]
      [] OTHER -> [ok |-> FALSE, val |-> 0]

\* float(text), in mills for a price and in percent for a discount
float_of(s) ==
    CASE s = "1.004" -> [ok |-> TRUE, val |-> 1004]
      [] s = "2.496" -> [ok |-> TRUE, val |-> 2496]
      [] s = "50" -> [ok |-> TRUE, val |-> 50]
      [] s = "150" -> [ok |-> TRUE, val |-> 150]
      [] OTHER -> [ok |-> FALSE, val |-> 0]

\* f"{amount:.2f}": mills to cents, to the nearest cent (amounts are >= 0)
fmt2(mills) == (mills + 5) \div 10

\* float(row["price"]): cents of the file back to mills
parse2(cents) == cents * 10

VARIABLES
    products_file,  \* data/products.csv: sequence of rows [id, name, price (cents), stock]
    sales_file,     \* data/sales.csv: sequence of rows
    bills_txt,      \* bills/<bill_id>.txt: function from the bill ids written to content
    bills_csv,      \* bills/<bill_id>.csv: the same for the structured receipt
    cart,           \* Cart.items of the order session: sequence of CartItem
    clock,          \* the wall clock at its last reading, in half seconds
    last,           \* the last operation and the message it printed
    assigned,       \* every product id add_product ever assigned
    completed       \* number of checkouts that reached "Checkout complete"

vars == <<products_file, sales_file, bills_txt, bills_csv, cart, clock, last,
          assigned, completed>>
persisted == <<products_file, sales_file, bills_txt, bills_csv>>

Max0(S) == IF S = {} THEN 0 ELSE CHOOSE m \in S : \A x \in S : x <= m
Max2(a, b) == IF a >= b THEN a ELSE b
\* [p for p in products if p["id"] != pid]
RECURSIVE without_id(_, _)
without_id(products, pid) ==
    IF products = <<>> THEN <<>>
    ELSE IF Head(products).id # pid
    THEN <<Head(products)>> \o without_id(Tail(products), pid)
    ELSE without_id(Tail(products), pid)

\* ------------------------------------------------------------ product store
read_products(file) ==
    [i \in DOMAIN file |->
        [id |-> file[i].id, name |-> file[i].name,
         price |-> parse2(file[i].price), stock |-> file[i].stock]]

write_products(products) ==
    [i \in DOMAIN products |->
        [id |-> products[i].id, name |-> products[i].name,
         price |-> fmt2(products[i].price), stock |-> products[i].stock]]

\* mutant: the number of products + 1
next_product_id_by_count(products) == Len(products) + 1

next_product_id(products) == Max0({products[i].id : i \in DOMAIN products}) + 1

\* index of the first product with this id, 0 for None
find_product_by_id(products, pid) ==
    IF \E i \in DOMAIN products : products[i].id = pid
    THEN CHOOSE i \in DOMAIN products :
            /\ products[i].id = pid
            /\ \A j \in DOMAIN products : products[j].id = pid => i <= j
    ELSE 0

\* the record of an operation: its name and the message it printed
Op(op, msg) == [op |-> op, msg |-> msg]

Init ==
    /\ products_file = <<>>
    /\ sales_file = <<>>
    /\ bills_txt = <<>>
    /\ bills_csv = <<>>
    /\ cart = <<>>
    /\ clock = 1
    /\ last = Op("main_menu", "")
    /\ assigned = {}
    /\ completed = 0

\* ------------------------------------------------------- product management
\* add_product(): the file after the call, the id it computed, the message
add_product(file, name_in, price_in, stock_in) ==
    LET products == read_products(file)
        pid == next_product_id(products)
        name == strip(name_in)
        price == float_of(strip(price_in))
        stock == int_of(strip(stock_in))
    IN  IF name = ""
        THEN [msg |-> "Name cannot be empty.", pid |-> pid, file |-> file]
        ELSE IF ~price.ok \/ ~stock.ok
        THEN [msg |-> "Invalid numeric input.", pid |-> pid, file |-> file]
        ELSE [msg |-> "Product added", pid |-> pid,
              file |-> write_products(Append(products,
                          [id |-> pid, name |-> name,
                           price |-> price.val, stock |-> stock.val]))]

update_product(file, id_in, name_in, price_in, stock_in) ==
    LET pid == int_of(strip(id_in))
        products == read_products(file)
        idx == find_product_by_id(products, pid.val)
        new_name == strip(name_in)
        new_price == strip(price_in)
        new_stock == strip(stock_in)
        p0 == products[idx]
        p1 == IF new_name # "" THEN [p0 EXCEPT !.name = new_name] ELSE p0
        p2 == IF new_price # "" THEN [p1 EXCEPT !.price = float_of(new_price).val] ELSE p1
        p3 == IF new_stock # "" THEN [p2 EXCEPT !.stock = int_of(new_stock).val] ELSE p2
    IN  IF ~pid.ok THEN [msg |-> "Invalid ID.", file |-> file]
        ELSE IF idx = 0 THEN [msg |-> "Product ID not found.", file |-> file]
        ELSE IF new_price # "" /\ ~float_of(new_price).ok
        THEN [msg |-> "Invalid numeric input. Aborting update.", file |-> file]
        ELSE IF new_stock # "" /\ ~int_of(new_stock).ok
        THEN [msg |-> "Invalid numeric input. Aborting update.", file |-> file]
        ELSE [msg |-> "Product updated.",
              file |-> write_products([products EXCEPT ![idx] = p3])]

delete_product(file, id_in) ==
    LET pid == int_of(strip(id_in))
        products == read_products(file)
        kept == without_id(products, pid.val)
    IN  IF ~pid.ok THEN [msg |-> "Invalid ID.", file |-> file]
        ELSE IF Len(kept) = Len(products)
        THEN [msg |-> "Product ID not found.", file |-> file]
        ELSE [msg |-> "Product deleted.", file |-> write_products(kept)]

\* --------------------------------------------------------------------- cart
CartItem(product_id, name, price, qty) ==
    [product_id |-> product_id, name |-> name, price |-> price, qty |-> qty]

line_total(item) == item.price * item.qty

\* Cart._find_item: index of the first line of this product, 0 for None
find_item(items, product_id) ==
    IF \E i \in DOMAIN items : items[i].product_id = product_id
    THEN CHOOSE i \in DOMAIN items :
            /\ items[i].product_id = product_id
            /\ \A j \in DOMAIN items : items[j].product_id = product_id => i <= j
    ELSE 0

\* mutant: the stock is not compared with the quantity
add_item_stock_unchecked(items, file, product_id, qty) ==
    LET products == read_products(file)
        idx == find_product_by_id(products, product_id)
        product == products[idx]
        existing == find_item(items, product_id)
    IN  IF idx = 0
        THEN [ret |-> FALSE, msg |-> "Product ID not found.", items |-> items]
        ELSE IF qty <= 0
        THEN [ret |-> FALSE, msg |-> "Quantity must be > 0.", items |-> items]
        ELSE IF existing # 0
        THEN [ret |-> TRUE, msg |-> "Added more to cart",
              items |-> [items EXCEPT ![existing].qty = items[existing].qty + qty]]
        ELSE [ret |-> TRUE, msg |-> "Added to cart",
              items |-> Append(items,
                          CartItem(product.id, product.name, product.price, qty))]

\* mutant: a quantity of 0 is let through ("qty < 0" for "qty <= 0")
add_item_zero_allowed(items, file, product_id, qty) ==
    LET products == read_products(file)
        idx == find_product_by_id(products, product_id)
        product == products[idx]
        existing == find_item(items, product_id)
    IN  IF idx = 0
        THEN [ret |-> FALSE, msg |-> "Product ID not found.", items |-> items]
        ELSE IF qty < 0
        THEN [ret |-> FALSE, msg |-> "Quantity must be > 0.", items |-> items]
        ELSE IF product.stock < qty
        THEN [ret |-> FALSE, msg |-> "Insufficient stock.", items |-> items]
        ELSE IF existing # 0
        THEN [ret |-> TRUE, msg |-> "Added more to cart",
              items |-> [items EXCEPT ![existing].qty = items[existing].qty + qty]]
        ELSE [ret |-> TRUE, msg |-> "Added to cart",
              items |-> Append(items,
                          CartItem(product.id, product.name, product.price, qty))]

\* mutant: a repeated add takes name and price from the product file again
add_item_resnapshot(items, file, product_id, qty) ==
    LET products == read_products(file)
        idx == find_product_by_id(products, product_id)
        product == products[idx]
        existing == find_item(items, product_id)
    IN  IF idx = 0
        THEN [ret |-> FALSE, msg |-> "Product ID not found.", items |-> items]
        ELSE IF qty <= 0
        THEN [ret |-> FALSE, msg |-> "Quantity must be > 0.", items |-> items]
        ELSE IF product.stock < qty
        THEN [ret |-> FALSE, msg |-> "Insufficient stock.", items |-> items]
        ELSE IF existing # 0
        THEN [ret |-> TRUE, msg |-> "Added more to cart",
              items |-> [items EXCEPT ![existing] =
                            CartItem(product.id, product.name, product.price,
                                     items[existing].qty + qty)]]
        ELSE [ret |-> TRUE, msg |-> "Added to cart",
              items |-> Append(items,
                          CartItem(product.id, product.name, product.price, qty))]

\* Cart.add_item: what it returns, the message it prints, the items after it
add_item(items, file, product_id, qty) ==
    LET products == read_products(file)
        idx == find_product_by_id(products, product_id)
        product == products[idx]
        existing == find_item(items, product_id)
    IN  IF idx = 0
        THEN [ret |-> FALSE, msg |-> "Product ID not found.", items |-> items]
        ELSE IF qty <= 0
        THEN [ret |-> FALSE, msg |-> "Quantity must be > 0.", items |-> items]
        ELSE IF product.stock < qty
        THEN [ret |-> FALSE, msg |-> "Insufficient stock.", items |-> items]
        ELSE IF existing # 0
        THEN [ret |-> TRUE, msg |-> "Added more to cart",
              items |-> [items EXCEPT ![existing].qty = items[existing].qty + qty]]
        ELSE [ret |-> TRUE, msg |-> "Added to cart",
              items |-> Append(items,
                          CartItem(product.id, product.name, product.price, qty))]

remove_item(items, product_id) ==
    LET idx == find_item(items, product_id)
    IN  IF idx = 0
        THEN [ret |-> FALSE, msg |-> "Item not found in cart.", items |-> items]
        ELSE [ret |-> TRUE, msg |-> "Item removed from cart.",
              items |-> [i \in 1..(Len(items) - 1) |->
                            IF i < idx THEN items[i] ELSE items[i + 1]]]

RECURSIVE SumLines(_)
SumLines(items) ==
    IF items = <<>> THEN 0 ELSE line_total(Head(items)) + SumLines(Tail(items))

subtotal_of(items) == SumLines(items)

is_empty(items) == items = <<>>

\* ----------------------------------------------------------------- checkout
apply_discount_prompt(ans_in, pct_in) ==
    LET ans == lower(strip(ans_in))
        pct == float_of(strip(pct_in))
    IN  IF ans # "y" THEN 0
        ELSE IF ~pct.ok THEN 0
        ELSE IF pct.val < 0 \/ pct.val > 100 THEN 0
        ELSE pct.val

\* mutant: the stock is not clamped at 0
RECURSIVE reduce_stock_unclamped(_, _)
reduce_stock_unclamped(products, cart_items) ==
    IF cart_items = <<>> THEN products
    ELSE LET item == Head(cart_items)
             idx == Max0({i \in DOMAIN products : products[i].id = item.product_id})
         IN  IF idx = 0 THEN reduce_stock_unclamped(products, Tail(cart_items))
             ELSE reduce_stock_unclamped(
                    [products EXCEPT ![idx].stock = products[idx].stock - item.qty],
                    Tail(cart_items))

\* the loop of _update_product_stock_after_checkout over the cart items
RECURSIVE reduce_stock(_, _)
reduce_stock(products, cart_items) ==
    IF cart_items = <<>> THEN products
    ELSE LET item == Head(cart_items)
             \* index_by_id: the last index holding the id
             idx == Max0({i \in DOMAIN products : products[i].id = item.product_id})
         IN  IF idx = 0 THEN reduce_stock(products, Tail(cart_items))
             ELSE reduce_stock(
                    [products EXCEPT ![idx].stock = Max2(0, products[idx].stock - item.qty)],
                    Tail(cart_items))

update_product_stock_after_checkout(file, cart_items) ==
    write_products(reduce_stock(read_products(file), cart_items))

\* now.strftime("%Y%m%d%H%M%S"): the clock (half seconds) cut to the second
strftime(now) == now \div 2

\* what _write_bill_files writes to either file of a bill
bill_content(ts, items, subtotal, discount_pct, total) ==
    [datetime |-> ts,
     lines |-> [i \in DOMAIN items |->
                  [product_id |-> items[i].product_id, name |-> items[i].name,
                   unit_price |-> fmt2(items[i].price), qty |-> items[i].qty,
                   line_total |-> fmt2(line_total(items[i]))]],
     subtotal |-> fmt2(subtotal),
     discount_pct |-> discount_pct,
     discount |-> fmt2((subtotal * discount_pct) \div 100),
     total |-> fmt2(total)]

\* open(path, "w") and write: the file of this bill id is created or replaced
write_bill_file(files, bill_id, content) ==
    [b \in DOMAIN files \cup {bill_id} |-> IF b = bill_id THEN content ELSE files[b]]

\* mutant: the ledger is opened with "w"
append_sales_summary_truncating(sales, bill_id, ts, subtotal, discount_pct, total) ==
    <<[bill_id |-> bill_id, datetime |-> ts, subtotal |-> fmt2(subtotal),
       discount_percent |-> discount_pct, total_amount |-> fmt2(total)]>>

\* open(SALES_FILE, "a") and writerow
append_sales_summary(sales, bill_id, ts, subtotal, discount_pct, total) ==
    Append(sales, [bill_id |-> bill_id, datetime |-> ts, subtotal |-> fmt2(subtotal),
                   discount_percent |-> discount_pct, total_amount |-> fmt2(total)])

Files(p, s, t, c) == [products |-> p, sales |-> s, txt |-> t, csv |-> c]

\* mutant: the ledger row is appended before the bill files are written
checkout_commit_ledger_first(items, files, subtotal, discount_pct, total, now, io) ==
    LET stocked == update_product_stock_after_checkout(files.products, items)
        bill_id == strftime(now)
        ts == strftime(now)
        content == bill_content(ts, items, subtotal, discount_pct, total)
        txt == write_bill_file(files.txt, bill_id, content)
        csv == write_bill_file(files.csv, bill_id, content)
        sales == append_sales_summary(files.sales, bill_id, ts, subtotal,
                                      discount_pct, total)
    IN  IF io = "products"
        THEN [msg |-> "OSError: products.csv", files |-> files, read_clock |-> FALSE]
        ELSE IF io = "sales"
        THEN [msg |-> "OSError: sales.csv", read_clock |-> TRUE,
              files |-> Files(stocked, files.sales, files.txt, files.csv)]
        ELSE IF io = "txt"
        THEN [msg |-> "OSError: bill txt", read_clock |-> TRUE,
              files |-> Files(stocked, sales, files.txt, files.csv)]
        ELSE IF io = "csv"
        THEN [msg |-> "OSError: bill csv", read_clock |-> TRUE,
              files |-> Files(stocked, sales, txt, files.csv)]
        ELSE [msg |-> "Checkout complete.", read_clock |-> TRUE,
              files |-> Files(stocked, sales, txt, csv)]

\* checkout, steps 1 to 4 (after the confirmation): the files after them and
\* how they ended.  io names the file whose open() for writing fails ("none":
\* every write succeeds).
checkout_commit(items, files, subtotal, discount_pct, total, now, io) ==
    LET stocked == update_product_stock_after_checkout(files.products, items)
        bill_id == strftime(now)
        ts == strftime(now)
        content == bill_content(ts, items, subtotal, discount_pct, total)
        txt == write_bill_file(files.txt, bill_id, content)
        csv == write_bill_file(files.csv, bill_id, content)
        sales == append_sales_summary(files.sales, bill_id, ts, subtotal,
                                      discount_pct, total)
    IN  IF io = "products"
        THEN [msg |-> "OSError: products.csv", files |-> files, read_clock |-> FALSE]
        ELSE IF io = "txt"
        THEN [msg |-> "OSError: bill txt", read_clock |-> TRUE,
              files |-> Files(stocked, files.sales, files.txt, files.csv)]
        ELSE IF io = "csv"
        THEN [msg |-> "OSError: bill csv", read_clock |-> TRUE,
              files |-> Files(stocked, files.sales, txt, files.csv)]
        ELSE IF io = "sales"
        THEN [msg |-> "OSError: sales.csv", read_clock |-> TRUE,
              files |-> Files(stocked, files.sales, txt, csv)]
        ELSE [msg |-> "Checkout complete.", read_clock |-> TRUE,
              files |-> Files(stocked, sales, txt, csv)]

\* mutant: the stock is reduced before the confirmation is asked for
checkout_stock_before_confirm(items, files, ans_in, pct_in, confirm_in, now, io) ==
    LET subtotal == subtotal_of(items)
        discount_pct == apply_discount_prompt(ans_in, pct_in)
        total == subtotal - (subtotal * discount_pct) \div 100
        confirm == lower(strip(confirm_in))
        stocked == update_product_stock_after_checkout(files.products, items)
    IN  IF is_empty(items)
        THEN [msg |-> "Cart empty. Cannot checkout.", files |-> files, read_clock |-> FALSE]
        ELSE IF confirm # "y"
        THEN [msg |-> "Checkout cancelled.", read_clock |-> FALSE,
              files |-> Files(stocked, files.sales, files.txt, files.csv)]
        ELSE checkout_commit(items, files, subtotal, discount_pct, total, now, io)

\* checkout(cart): the files after the call, and how it ended
checkout(items, files, ans_in, pct_in, confirm_in, now, io) ==
    LET subtotal == subtotal_of(items)
        discount_pct == apply_discount_prompt(ans_in, pct_in)
        discount_amount == (subtotal * discount_pct) \div 100
        total == subtotal - discount_amount
        confirm == lower(strip(confirm_in))
    IN  IF is_empty(items)
        THEN [msg |-> "Cart empty. Cannot checkout.", files |-> files, read_clock |-> FALSE]
        ELSE IF confirm # "y"
        THEN [msg |-> "Checkout cancelled.", files |-> files, read_clock |-> FALSE]
        ELSE checkout_commit(items, files, subtotal, discount_pct, total, now, io)

\* ------------------------------------------------------------------ actions
AddProduct(names, prices, stocks, max_id) ==
    \E name_in \in names, price_in \in prices, stock_in \in stocks :
        LET r == add_product(products_file, name_in, price_in, stock_in)
        IN  /\ r.pid <= max_id
            /\ products_file' = r.file
            /\ assigned' = IF r.msg = "Product added" THEN assigned \cup {r.pid}
                           ELSE assigned
            /\ last' = Op("add_product", r.msg)
            /\ UNCHANGED <<sales_file, bills_txt, bills_csv, cart, clock, completed>>

UpdateProduct(ids, names, prices, stocks) ==
    \E id_in \in ids, name_in \in names, price_in \in prices, stock_in \in stocks :
        LET r == update_product(products_file, id_in, name_in, price_in, stock_in)
        IN  /\ products_file' = r.file
            /\ last' = Op("update_product", r.msg)
            /\ UNCHANGED <<sales_file, bills_txt, bills_csv, cart, clock, assigned,
                           completed>>

DeleteProduct(ids) ==
    \E id_in \in ids :
        LET r == delete_product(products_file, id_in)
        IN  /\ products_file' = r.file
            /\ last' = Op("delete_product", r.msg)
            /\ UNCHANGED <<sales_file, bills_txt, bills_csv, cart, clock, assigned,
                           completed>>

\* order_menu, choice 1
AddItem(pids, qtys) ==
    \E product_id \in pids, qty \in qtys :
        LET r == add_item(cart, products_file, product_id, qty)
        IN  /\ \A i \in DOMAIN r.items : r.items[i].qty <= MaxLineQty
            /\ cart' = r.items
            /\ last' = Op("add_item", r.msg)
            /\ UNCHANGED <<persisted, clock, assigned, completed>>

\* order_menu, choice 2
RemoveItem(pids) ==
    \E product_id \in pids :
        LET r == remove_item(cart, product_id)
        IN  /\ cart' = r.items
            /\ last' = Op("remove_item", r.msg)
            /\ UNCHANGED <<persisted, clock, assigned, completed>>

\* order_menu, choice 4: checkout(cart), then return (the cart is dropped)
Checkout(discounts, confirms, ios, max_clock) ==
    \E d \in discounts, confirm_in \in confirms, now \in (clock + 1)..(clock + 2),
       io \in ios :
        LET r == checkout(cart, Files(products_file, sales_file, bills_txt, bills_csv),
                          d[1], d[2], confirm_in, now, io)
        IN  /\ r.read_clock => now <= max_clock
            /\ products_file' = r.files.products
            /\ sales_file' = r.files.sales
            /\ bills_txt' = r.files.txt
            /\ bills_csv' = r.files.csv
            /\ clock' = IF r.read_clock THEN now ELSE clock
            /\ completed' = IF r.msg = "Checkout complete." THEN completed + 1
                            ELSE completed
            /\ cart' = <<>>
            /\ last' = Op("checkout", r.msg)
            /\ UNCHANGED assigned

\* order_menu, choice 0: back to the main menu (the cart is dropped)
Back ==
    /\ cart' = <<>>
    /\ last' = Op("back", "")
    /\ UNCHANGED <<persisted, clock, assigned, completed>>

\* ------------------------------------------------------- what is typed in
OneName == {"pen", "  "}
Names == {"pen", " ink ", "  "}
OnePrice == {"1.004", "abc"}
Prices == {"1.004", "2.496", ""}
Stocks == {"-1", "1", "2", "x"}
FewStocks == {"1", "2"}
OneStock == {"1"}
Ids == {"1", "2", "x"}
Pids == {1, 2}
Qtys == {0, 1, 2}
Discounts == {<<"n", "">>, <<" Y", "50">>, <<"y", "150">>, <<"y", "abc">>}
Confirms == {" Y", "n"}
IoErrors == {"none", "products", "txt", "csv", "sales"}

\* every operation; one product, two checkouts
Next ==
    \/ AddProduct(OneName, OnePrice, Stocks, MaxId)
    \/ UpdateProduct(Ids, OneName, OnePrice \cup {""}, FewStocks \cup {"", "x"})
    \/ DeleteProduct(Ids)
    \/ AddItem(Pids, Qtys)
    \/ RemoveItem(Pids)
    \/ Checkout(Discounts, Confirms, IoErrors, MaxClock)
    \/ Back

Spec == Init /\ [][Next]_vars

\* every operation; two products, one checkout, no discount
NextStock ==
    \/ AddProduct(OneName, OnePrice, FewStocks, MaxIdStock)
    \/ UpdateProduct(Ids, {""}, {""}, FewStocks)
    \/ DeleteProduct(Ids)
    \/ AddItem(Pids, Qtys)
    \/ RemoveItem(Pids)
    \/ Checkout({<<"n", "">>}, Confirms, {"none", "products"}, MaxClockStock)
    \/ Back

SpecStock == Init /\ [][NextStock]_vars

\* products and cart; names and prices vary
NextCart ==
    \/ AddProduct(Names, Prices, OneStock, MaxIdCart)
    \/ UpdateProduct(Ids, Names, Prices, {""})
    \/ DeleteProduct(Ids)
    \/ AddItem(Pids, Qtys)
    \/ RemoveItem(Pids)
    \/ Back

SpecCart == Init /\ [][NextCart]_vars

\* products only
NextIds ==
    \/ AddProduct(Names, OnePrice, Stocks, MaxIdIds)
    \/ UpdateProduct(Ids \cup {"3"}, Names, OnePrice \cup {""}, Stocks \cup {""})
    \/ DeleteProduct(Ids \cup {"3"})

SpecIds == Init /\ [][NextIds]_vars

\* ------------------------------------------------------------ the claims
ProductIds(file) == {file[i].id : i \in DOMAIN file}
CartPids(items) == {items[i].product_id : i \in DOMAIN items}
NoDuplicateLines(items) ==
    \A i, j \in DOMAIN items : items[i].product_id = items[j].product_id => i = j
Did(op, msgs) == last'.op = op /\ last'.msg \in msgs
Confirmed == {"OSError: products.csv", "OSError: bill txt", "OSError: bill csv",
              "OSError: sales.csv", "Checkout complete."}
StockWritten == Confirmed \ {"OSError: products.csv"}
Accepted == {"Added to cart", "Added more to cart"}
Declined == {"Product ID not found.", "Quantity must be > 0.", "Insufficient stock."}

\* the product file a checkout of these items is to leave: each product in
\* the cart has its stock reduced by the line's quantity, not below 0
StockReduced(before, items, after) ==
    /\ Len(after) = Len(before)
    /\ \A i \in DOMAIN before :
        /\ after[i].id = before[i].id
        /\ after[i].name = before[i].name
        /\ after[i].price = before[i].price
        /\ \A k \in DOMAIN items :
             items[k].product_id = before[i].id =>
                after[i].stock = Max2(0, before[i].stock - items[k].qty)
        /\ before[i].id \notin CartPids(items) => after[i].stock = before[i].stock

\* C1: in every reachable state every product of the product file has
\* stock >= 0.
C1_StockNeverNegative ==
    \A i \in DOMAIN products_file : products_file[i].stock >= 0

\* C2 as claimed: a checkout gets to reduce the stock only if every line of
\* the cart asks for no more than the stock the product file holds for its
\* product at that moment.
C2_CheckoutWithinStock ==
    [][Did("checkout", StockWritten) =>
        \A k \in DOMAIN cart :
            \E i \in DOMAIN products_file :
                /\ products_file[i].id = cart[k].product_id
                /\ cart[k].qty <= products_file[i].stock]_vars

\* C2 as amended: the stock is checked by add_item alone, call by call: an
\* accepted add_item changes one line, by a quantity that is > 0 and <= the
\* stock the product file holds for that product at that call; and a checkout
\* reaches the stock-decrement step only from a cart that is not empty.
C2_StockCheckedPerAdd ==
    [][/\ Did("add_item", Accepted) =>
            \E k \in DOMAIN cart' :
                LET old == IF k \in DOMAIN cart THEN cart[k].qty ELSE 0
                    q == cart'[k].qty - old
                IN  /\ q > 0
                    /\ \A m \in DOMAIN cart' \ {k} : m \in DOMAIN cart /\ cart'[m] = cart[m]
                    /\ \E i \in DOMAIN products_file :
                        /\ products_file[i].id = cart'[k].product_id
                        /\ q <= products_file[i].stock
       /\ Did("checkout", Confirmed) => cart # <<>>]_vars

\* C2, its case: a second add of a product was accepted and the line now asks
\* for more than the product's stock.
C2_Witness ==
    /\ last = Op("add_item", "Added more to cart")
    /\ \E k \in DOMAIN cart : \E i \in DOMAIN products_file :
        /\ products_file[i].id = cart[k].product_id
        /\ cart[k].qty > products_file[i].stock

\* C3 as claimed: the id given to a newly added product was never assigned to
\* a product before.
C3_NoIdReuse ==
    [][Did("add_product", {"Product added"}) =>
        products_file'[Len(products_file')].id \notin assigned]_vars

\* C3 as amended: the id given to a newly added product is max existing id + 1
\* (1 for an empty collection), so it is greater than every id now in the
\* collection, and the ids in the collection stay distinct and ascending.
C3_NewIdAboveCurrent ==
    [][/\ Did("add_product", {"Product added"}) =>
            LET pid == products_file'[Len(products_file')].id
            IN  /\ Len(products_file') = Len(products_file) + 1
                /\ \A i \in DOMAIN products_file : products_file[i].id < pid
                /\ \E m \in ProductIds(products_file) \cup {0} :
                    /\ pid = m + 1
                    /\ \A x \in ProductIds(products_file) : x <= m
       /\ \A i, j \in DOMAIN products_file' :
            i < j => products_file'[i].id < products_file'[j].id]_vars

\* C3, its case: a product was added to a collection of which products had
\* been deleted.
C3_Witness ==
    /\ last = Op("add_product", "Product added")
    /\ Len(products_file) >= 2
    /\ \E a \in assigned : a \notin ProductIds(products_file)

\* C4: no step changes the bill files of a completed checkout (one that has
\* its row in the ledger).
C4_BillNeverOverwritten ==
    [][\A n \in DOMAIN sales_file :
        LET b == sales_file[n].bill_id
        IN  /\ b \in DOMAIN bills_txt' /\ bills_txt'[b] = bills_txt[b]
            /\ b \in DOMAIN bills_csv' /\ bills_csv'[b] = bills_csv[b]]_vars

\* C5: a checkout that ends with the cart empty or with the confirmation
\* declined leaves the product file, the ledger and the bill files as they were.
C5_AbortedCheckoutChangesNothing ==
    [][Did("checkout", {"Cart empty. Cannot checkout.", "Checkout cancelled."}) =>
        UNCHANGED persisted]_vars

\* C5, its case: a checkout of a cart with items was cancelled, with products
\* in stock and a sale on record.
C5_Witness ==
    /\ last = Op("checkout", "Checkout cancelled.")
    /\ sales_file # <<>>
    /\ \E i \in DOMAIN products_file : products_file[i].stock > 0

\* C6: add_item of an unknown product, of a quantity <= 0 or of a quantity
\* above the product's stock in the product file returns False and leaves the
\* cart as it was; and a declined add_item leaves cart and product file as
\* they were.
C6_DeclinedAddChangesNothing ==
    [][/\ \A pid \in Pids, qty \in Qtys :
            (\/ pid \notin ProductIds(products_file)
             \/ qty <= 0
             \/ \E i \in DOMAIN products_file :
                    products_file[i].id = pid /\ qty > products_file[i].stock)
            => LET r == add_item(cart, products_file, pid, qty)
               IN  r.ret = FALSE /\ r.items = cart
       /\ Did("add_item", Declined) => UNCHANGED <<cart, persisted>>]_vars

\* C6, its case: an add was declined for insufficient stock while the cart
\* held items.
C6_Witness ==
    /\ last = Op("add_item", "Insufficient stock.")
    /\ cart # <<>>

\* C7: the ledger has one row per completed checkout; every step keeps the
\* rows written before as a prefix; only a completed checkout adds a row, and
\* it adds one.
C7_LedgerAppendOnly ==
    [][/\ Len(sales_file') = completed'
       /\ Len(sales_file') >= Len(sales_file)
       /\ SubSeq(sales_file', 1, Len(sales_file)) = sales_file
       /\ Len(sales_file') =
            IF Did("checkout", {"Checkout complete."}) THEN Len(sales_file) + 1
            ELSE Len(sales_file)]_vars

\* C7, its case: two checkouts were completed.
C7_Witness ==
    /\ last = Op("checkout", "Checkout complete.")
    /\ Len(sales_file) = 2

\* C8: an accepted add of a product the cart holds changes that line's
\* quantity by a requested quantity and nothing else (name and price stay
\* those of the first add); an accepted add of another product appends a line
\* with the product's current name and price; no two lines share a product.
C8_OneLinePerProduct ==
    [][/\ Did("add_item", {"Added more to cart"}) =>
            \E k \in DOMAIN cart, q \in Qtys :
                q > 0 /\ cart' = [cart EXCEPT ![k].qty = cart[k].qty + q]
       /\ Did("add_item", {"Added to cart"}) =>
            \E i \in DOMAIN products_file, q \in Qtys :
                /\ q > 0
                /\ products_file[i].id \notin CartPids(cart)
                /\ cart' = Append(cart,
                                  CartItem(products_file[i].id, products_file[i].name,
                                           parse2(products_file[i].price), q))
       /\ NoDuplicateLines(cart')]_vars

\* C8, its case: a second add was accepted for a product whose name and price
\* in the product file are no longer those of the cart line.
C8_Witness ==
    /\ last = Op("add_item", "Added more to cart")
    /\ \E k \in DOMAIN cart : \E i \in DOMAIN products_file :
        /\ products_file[i].id = cart[k].product_id
        /\ parse2(products_file[i].price) # cart[k].price
        /\ products_file[i].name # cart[k].name
        /\ cart[k].qty = 2

\* C9: a checkout that wrote the product file left it with the stock of each
\* product in the cart reduced by the line's quantity, not below 0, and with
\* nothing else changed; a line of a deleted product is passed over.
C9_StockReducedAndClamped ==
    [][Did("checkout", StockWritten) =>
        StockReduced(products_file, cart, products_file')]_vars

\* C9, its case: a checkout completed for a cart of two lines, one of a
\* product deleted since, the other of a product whose stock is now 0.
C9_Witness ==
    /\ last = Op("checkout", "Checkout complete.")
    /\ \E b \in DOMAIN bills_csv :
        /\ \E k \in DOMAIN bills_csv[b].lines :
            bills_csv[b].lines[k].product_id \notin ProductIds(products_file)
        /\ \E k \in DOMAIN bills_csv[b].lines : \E i \in DOMAIN products_file :
            /\ bills_csv[b].lines[k].product_id = products_file[i].id
            /\ products_file[i].stock = 0

\* C10: a confirmed checkout writes the stock, then the receipt (txt, csv),
\* then the ledger, and keeps what it wrote when a later write fails; every
\* ledger row has both receipt files.
C10_StockThenReceiptThenLedger ==
    [][/\ Did("checkout", {"OSError: products.csv"}) => UNCHANGED persisted
       /\ Did("checkout", {"OSError: bill txt"}) =>
            /\ StockReduced(products_file, cart, products_file')
            /\ UNCHANGED <<bills_txt, bills_csv, sales_file>>
       /\ Did("checkout", {"OSError: bill csv"}) =>
            /\ StockReduced(products_file, cart, products_file')
            /\ strftime(clock') \in DOMAIN bills_txt'
            /\ UNCHANGED <<bills_csv, sales_file>>
       /\ Did("checkout", {"OSError: sales.csv"}) =>
            /\ StockReduced(products_file, cart, products_file')
            /\ strftime(clock') \in DOMAIN bills_txt' \cap DOMAIN bills_csv'
            /\ UNCHANGED sales_file
       /\ Did("checkout", {"Checkout complete."}) =>
            /\ StockReduced(products_file, cart, products_file')
            /\ strftime(clock') \in DOMAIN bills_txt' \cap DOMAIN bills_csv'
            /\ Len(sales_file') = Len(sales_file) + 1
            /\ sales_file'[Len(sales_file')].bill_id = strftime(clock')
       /\ \A n \in DOMAIN sales_file' :
            sales_file'[n].bill_id \in DOMAIN bills_txt' \cap DOMAIN bills_csv']_vars

\* C10, its case: the receipt could not be written; the stock is already
\* reduced to 0, and there is neither a receipt nor a ledger row.
C10_Witness ==
    /\ last = Op("checkout", "OSError: bill txt")
    /\ \E i \in DOMAIN products_file : products_file[i].stock = 0
    /\ DOMAIN bills_txt = {}
    /\ sales_file = <<>>
====
